---- MODULE Spec2Model ----
(***************************************************************************)
(* Model of simple_image_labeler.py: the label loader, the image queue and *)
(* the labelling session (label, undo, completion) over a small file       *)
(* system.  Strings are sequences of one-character strings, so that the    *)
(* string operations of the source (split, endswith, splitext, sort) are   *)
(* computed and not assumed.  Indices are 0-based as in the source; the    *)
(* operator At converts to TLA+ sequences.                                 *)
(***************************************************************************)
EXTENDS Integers, Sequences, FiniteSets, TLC

VARIABLES
    pc,              \* position in the module's top-level script
    files,           \* file system: the set of paths <<dir, name>> that are regular files
    dirs,            \* file system: the set of existing sub-directories of path
    labels,          \* labels (line 88)
    keyboard_shortcuts_indexed_by_letter,   \* line 42
    keyboard_shortcuts_indexed_by_idx,      \* line 43
    image_filenames, \* line 90
    img_idx,         \* line 41
    undo,            \* line 44
    log,             \* the lines of outfile (image_labels.csv)
    clock,           \* the wall clock read by datetime.now()
    report,          \* what the last call showed: dialog or exception, and the count shown
    prev,            \* history: the last handler call and how it ended
    lastOk,          \* history: the last call that ran to its end, "label" or "undo"
    before,          \* history: files, log and img_idx at the start of the last successful label action
    nLabel,          \* history: number of label actions that ran to their end
    nUndo,           \* history: number of undo calls that undid something
    nUndoCalls,      \* history: number of undo calls
    nCalls           \* history: number of handler calls

vars == <<pc, files, dirs, labels, keyboard_shortcuts_indexed_by_letter,
          keyboard_shortcuts_indexed_by_idx, image_filenames, img_idx, undo, log,
          clock, report, prev, lastOk, before, nLabel, nUndo, nUndoCalls, nCalls>>

session == <<files, log, img_idx, undo>>

-----------------------------------------------------------------------------
(* Bounds of the model *)

MaxCalls == 4        \* handler calls (label actions, key presses, undo calls) in a session
MaxClock == 1        \* seconds the wall clock advances during a session
MaxQueue == 3        \* files in the root directory of a session
MaxLabels == 3       \* sub-directories handed to the label loader
MaxFiles == 3        \* files in the root directory handed to the image queue

-----------------------------------------------------------------------------
(* Strings *)

Min(S) == CHOOSE x \in S : \A y \in S : x <= y
Max(S) == CHOOSE x \in S : \A y \in S : x >= y

\* Code points of the characters used, for Python's string comparison.
Code ==
    ("." :> 46) @@ ("1" :> 49) @@ ("G" :> 71) @@ ("N" :> 78) @@ ("P" :> 80) @@
    ("_" :> 95) @@ ("a" :> 97) @@ ("b" :> 98) @@ ("c" :> 99) @@ ("d" :> 100) @@
    ("e" :> 101) @@ ("g" :> 103) @@ ("j" :> 106) @@ ("n" :> 110) @@ ("o" :> 111) @@
    ("p" :> 112) @@ ("r" :> 114) @@ ("s" :> 115) @@ ("t" :> 116) @@ ("x" :> 120)

\* s < t for Python strings: the first differing character decides, a proper prefix is smaller.
StrLess(s, t) ==
    LET D == {i \in 1..Min({Len(s), Len(t)}) : s[i] # t[i]}
    IN  IF D = {} THEN Len(s) < Len(t) ELSE Code[s[Min(D)]] < Code[t[Min(D)]]

\* s[i] with a 0-based, non-negative index.
At(s, i) == s[i + 1]

\* s.endswith(suffix)
endswith(s, suffix) ==
    /\ Len(suffix) <= Len(s)
    /\ SubSeq(s, Len(s) - Len(suffix) + 1, Len(s)) = suffix

\* s.split(sep) for a non-empty sep: cut at the occurrences of sep, leftmost first.
RECURSIVE split(_, _)
split(s, sep) ==
    LET n == Len(sep)
        Occ == {i \in 1..(Len(s) - n + 1) : SubSeq(s, i, i + n - 1) = sep}
    IN  IF Occ = {}
        THEN <<s>>
        ELSE LET i == Min(Occ)
             IN  <<SubSeq(s, 1, i - 1)>> \o split(SubSeq(s, i + n, Len(s)), sep)

\* os.path.splitext(p)[0] for a p without directory separators: cut at the last
\* dot, unless only dots come before it.
splitext_root(p) ==
    LET Dots == {i \in 1..Len(p) : p[i] = "."}
    IN  IF Dots = {} THEN p
        ELSE LET d == Max(Dots)
             IN  IF \E k \in 1..(d - 1) : p[k] # "." THEN SubSeq(p, 1, d - 1) ELSE p

\* The sequences that list the elements of the finite set S once each, in any order.
Orders(S) ==
    {f \in [1..Cardinality(S) -> S] : \A i, j \in 1..Cardinality(S) : f[i] = f[j] => i = j}

\* The rearrangements of the sequence s (random.shuffle).
Shuffles(s) ==
    {[i \in 1..Len(s) |-> s[p[i]]] : p \in Orders(1..Len(s))}

-----------------------------------------------------------------------------
(* File system *)

Root == <<>>                          \* path
join(dir, name) == <<dir, name>>      \* os.path.join(path, dir, name)
isfile(p) == p \in files              \* os.path.isfile
DirExists(d) == d = Root \/ d \in dirs

\* next(os.walk(path)): the sub-directories and the files directly in path, in any order.
WalkDirnames == Orders(dirs)
WalkFilenames == Orders({p[2] : p \in {q \in files : q[1] = Root}})

-----------------------------------------------------------------------------
(* Names *)

cat == <<"c", "a", "t">>
car == <<"c", "a", "r">>
dog == <<"d", "o", "g">>

s_1_png   == <<"s", "_", "1", ".", "p", "n", "g">>        \* serial s, iteration 1
s1_1x_jpg == <<"s", "1", "_", "1", "x", ".", "j", "p", "g">>   \* the iteration token starts with the serial's digit
b_png     == <<"b", ".", "p", "n", "g">>                  \* no underscore
t__png    == <<"t", "_", ".", "p", "n", "g">>             \* empty iteration token
n_txt     == <<"n", ".", "t", "x", "t">>                  \* not an image

SessionDirs == {cat, car}
SessionNames == {s_1_png, s1_1x_jpg, b_png, t__png, n_txt}
Keys == {"c", "a", "x"}

-----------------------------------------------------------------------------
(* Label loader, lines 47-59 *)

\* line 55, mutated: every letter counts as free
letter_is_free_always(letter, by_letter) == TRUE

\* line 55: letter not in keyboard_shortcuts_indexed_by_letter
letter_is_free(letter, by_letter) == letter \notin DOMAIN by_letter

\* line 50, mutated: the labels stay in directory order
sort_skipped(l) == l

\* line 50: labels.sort()
sort(l) == SortSeq(l, StrLess)

\* lines 52-58, mutated: the scan takes the last free letter
rightmost(Free) == Max(Free)

\* lines 52-58: the scan stops at the first free letter
leftmost(Free) == Min(Free)

\* lines 51-58: the loop over the labels from index i on, with the two tables so far.
RECURSIVE assign_shortcuts(_, _, _, _)
assign_shortcuts(ls, i, by_letter, by_idx) ==
    IF i >= Len(ls)
    THEN [by_letter |-> by_letter, by_idx |-> by_idx]
    ELSE LET label == At(ls, i)
             Free == {k \in 0..(Len(label) - 1) : letter_is_free(At(label, k), by_letter)}
         IN  IF Free = {}
             THEN assign_shortcuts(ls, i + 1, by_letter, by_idx)
             ELSE LET letter_idx == leftmost(Free)
                      letter == At(label, letter_idx)
                  IN  assign_shortcuts(ls, i + 1,
                                       (letter :> i) @@ by_letter,
                                       (i :> letter_idx) @@ by_idx)

\* load_labels(path), given the sub-directories as os.walk lists them.
load_labels(dirnames) ==
    LET ls == sort(dirnames)
        t == assign_shortcuts(ls, 0, keyboard_shortcuts_indexed_by_letter,
                              keyboard_shortcuts_indexed_by_idx)
    IN  [labels |-> ls, by_letter |-> t.by_letter, by_idx |-> t.by_idx]

-----------------------------------------------------------------------------
(* Image queue, lines 62-71 *)

png == <<".", "p", "n", "g">>
jpg == <<".", "j", "p", "g">>
jpeg == <<".", "j", "p", "e", "g">>

\* line 68, mutated: the dot of the extension is not required
is_image_no_dot(pic) ==
    endswith(pic, Tail(png)) \/ endswith(pic, Tail(jpg)) \/ endswith(pic, Tail(jpeg))

\* line 68: the filter
is_image(pic) == endswith(pic, png) \/ endswith(pic, jpg) \/ endswith(pic, jpeg)

\* load_image_filenames(path), given the files as os.walk lists them: the
\* possible results of the shuffle.
load_image_filenames(filenames) == Shuffles(SelectSeq(filenames, is_image))

-----------------------------------------------------------------------------
(* Session, lines 101-176 and 205-208 *)

Report(kind) == [kind |-> kind, count |-> -1]
Finished(n) == [kind |-> "Finished", count |-> n]
Warnings == {"NothingToUndo", "OnlyUndoOnce"}
Exceptions == {"IndexError", "ValueError", "FileNotFoundError"}

\* s[i] of a Python list: negative indices count from the end.
IndexOk(s, i) == -Len(s) <= i /\ i < Len(s)
Index(s, i) == IF i >= 0 THEN s[i + 1] ELSE s[Len(s) + i + 1]

\* line 174, mutated: the move goes through without the directory
rename_ok_any_directory(fs, src, dst) == src \in fs

\* line 174, mutated: the file is copied, the source stays
rename_keeps_source(fs, src, dst) == fs \cup {dst}

\* os.rename(src, dst) on the set fs of files: fails if src is missing or the
\* directory of dst is.
rename_ok(fs, src, dst) == src \in fs /\ DirExists(dst[1])
rename(fs, src, dst) == (fs \ {src}) \cup {dst}

\* line 115, mutated: the event loop is not stopped
quit_skipped(finished) == FALSE

\* line 115: window.quit() ends window.mainloop() (line 215)
quit(finished) == finished

\* lines 104-107, mutated: the cursor is not moved
change_img_stays(decrement, fs) ==
    [img_idx |-> img_idx, report |-> Report("none"), quit |-> FALSE]

\* change_img(decrement) on the file system fs: the new img_idx, what is shown
\* and whether the event loop is stopped.
change_img(decrement, fs) ==
    LET i == IF decrement THEN img_idx - 1 ELSE img_idx + 1
    IN  IF i >= Len(image_filenames)
        THEN [img_idx |-> i, report |-> Finished(i), quit |-> quit(TRUE)]
        ELSE IF ~IndexOk(image_filenames, i)
        THEN [img_idx |-> i, report |-> Report("IndexError"), quit |-> FALSE]
        ELSE IF join(Root, Index(image_filenames, i)) \notin fs
        THEN [img_idx |-> i, report |-> Report("FileNotFoundError"), quit |-> FALSE]
        ELSE [img_idx |-> i, report |-> Report("none"), quit |-> FALSE]

\* lines 137-138, mutated: every line is written back
keep_all_lines(lines) == lines

\* lines 137-138: writelines(lines[:-1])
drop_last_line(lines) == IF lines = <<>> THEN <<>> ELSE SubSeq(lines, 1, Len(lines) - 1)

Count(op) ==
    /\ nCalls' = nCalls + 1
    /\ nUndoCalls' = IF op = "undo" THEN nUndoCalls + 1 ELSE nUndoCalls

\* lines 164-170, mutated: a line is written before the call raises or warns
Refused_after_write(op, kind) ==
    /\ report' = Report(kind)
    /\ prev' = [op |-> op, ok |-> FALSE]
    /\ Count(op)
    /\ log' = Append(log, <<clock>>)
    /\ UNCHANGED <<pc, files, dirs, labels, keyboard_shortcuts_indexed_by_letter,
                   keyboard_shortcuts_indexed_by_idx, image_filenames, img_idx, undo,
                   clock, lastOk, before, nLabel, nUndo>>

\* A handler call that raises or warns before it changed anything.
Refused(op, kind) ==
    /\ report' = Report(kind)
    /\ prev' = [op |-> op, ok |-> FALSE]
    /\ Count(op)
    /\ UNCHANGED <<pc, files, dirs, labels, keyboard_shortcuts_indexed_by_letter,
                   keyboard_shortcuts_indexed_by_idx, image_filenames, img_idx, undo,
                   log, clock, lastOk, before, nLabel, nUndo>>

\* line 132, mutated: the record is taken to be still valid
undo_target_exists_always(p) == TRUE

\* line 132: os.path.isfile(undo[0])
undo_target_exists(p) == isfile(p)

\* lines 131-132, mutated: the undo runs whatever the record is
undo_click_unguarded ==
    /\ img_idx' = img_idx - 1
    /\ log' = drop_last_line(log)
    /\ files' = IF Len(undo) = 2 THEN rename(files, undo[1], undo[2]) ELSE files
    /\ report' = Report("none")
    /\ prev' = [op |-> "undo", ok |-> TRUE]
    /\ lastOk' = "undo"
    /\ nUndo' = nUndo + 1
    /\ Count("undo")
    /\ UNCHANGED <<pc, dirs, labels, keyboard_shortcuts_indexed_by_letter,
                   keyboard_shortcuts_indexed_by_idx, image_filenames, undo, clock,
                   before, nLabel>>

\* undo_click(), lines 127-142
undo_click ==
    IF Len(undo) = 2
    THEN IF undo_target_exists(undo[1])
         THEN IF ~rename_ok(files, undo[1], undo[2])
              THEN Refused("undo", "FileNotFoundError")
              ELSE LET fs == rename(files, undo[1], undo[2])
                       c == change_img(TRUE, fs)
                       raised == c.report.kind \in Exceptions
                   IN  /\ files' = fs
                       /\ img_idx' = c.img_idx
                       /\ report' = c.report
                       /\ pc' = IF c.quit THEN "exit" ELSE pc
                       /\ log' = IF raised THEN log ELSE drop_last_line(log)
                       /\ prev' = [op |-> "undo", ok |-> ~raised]
                       /\ lastOk' = IF raised THEN lastOk ELSE "undo"
                       /\ nUndo' = IF raised THEN nUndo ELSE nUndo + 1
                       /\ Count("undo")
                       /\ UNCHANGED <<dirs, labels, keyboard_shortcuts_indexed_by_letter,
                                      keyboard_shortcuts_indexed_by_idx, image_filenames,
                                      undo, clock, before, nLabel>>
         ELSE Refused("undo", "OnlyUndoOnce")
    ELSE Refused("undo", "NothingToUndo")

\* lines 169-170, mutated: the row is not written
append_row_skipped(lines, row) == lines

\* lines 169-170: the row is appended to outfile
append_row(lines, row) == Append(lines, row)

\* on_btn_click(btn_idx), lines 145-176
on_btn_click(btn_idx) ==
    LET label == At(labels, btn_idx)
    IN  IF ~IndexOk(image_filenames, img_idx)
        THEN Refused("label", "IndexError")
        ELSE
        LET img_filename == Index(image_filenames, img_idx)
            parts == split(img_filename, <<"_">>)
        IN  IF Len(parts) < 2
            THEN Refused("label", "IndexError")
            ELSE
            LET serial == parts[1]
                itr == split(parts[2], <<".">>)[1]
            IN  IF itr = <<>>
                THEN Refused("label", "ValueError")
                ELSE
                LET fname == splitext_root(split(img_filename, itr)[2])
                    now == clock
                    lines == append_row(log, <<now, serial, itr, fname, label>>)
                    src == join(Root, img_filename)
                    new_img_filename == join(label, img_filename)
                IN  IF ~rename_ok(files, src, new_img_filename)
                    THEN /\ log' = lines
                         /\ report' = Report("FileNotFoundError")
                         /\ prev' = [op |-> "label", ok |-> FALSE]
                         /\ Count("label")
                         /\ UNCHANGED <<pc, files, dirs, labels,
                                        keyboard_shortcuts_indexed_by_letter,
                                        keyboard_shortcuts_indexed_by_idx, image_filenames,
                                        img_idx, undo, clock, lastOk, before, nLabel, nUndo>>
                    ELSE LET fs == rename(files, src, new_img_filename)
                             c == change_img(FALSE, fs)
                         IN  /\ log' = lines
                             /\ files' = fs
                             /\ undo' = <<new_img_filename, src>>
                             /\ img_idx' = c.img_idx
                             /\ report' = c.report
                             /\ pc' = IF c.quit THEN "exit" ELSE pc
                             /\ prev' = [op |-> "label", ok |-> TRUE]
                             /\ lastOk' = "label"
                             /\ before' = [files |-> files, log |-> log, img_idx |-> img_idx]
                             /\ nLabel' = nLabel + 1
                             /\ Count("label")
                             /\ UNCHANGED <<dirs, labels, keyboard_shortcuts_indexed_by_letter,
                                            keyboard_shortcuts_indexed_by_idx,
                                            image_filenames, clock, nUndo>>

\* line 208, mutated: the key selects the label after the one that owns it
handle_keypress_shifted(char) ==
    IF char \in DOMAIN keyboard_shortcuts_indexed_by_letter
    THEN on_btn_click((keyboard_shortcuts_indexed_by_letter[char] + 1) % Len(labels))
    ELSE /\ report' = Report("none")
         /\ prev' = [op |-> "key", ok |-> TRUE]
         /\ Count("key")
         /\ UNCHANGED <<pc, files, dirs, labels, keyboard_shortcuts_indexed_by_letter,
                        keyboard_shortcuts_indexed_by_idx, image_filenames, img_idx, undo,
                        log, clock, lastOk, before, nLabel, nUndo>>

\* handle_keypress(event), lines 205-208
handle_keypress(char) ==
    IF char \in DOMAIN keyboard_shortcuts_indexed_by_letter
    THEN on_btn_click(keyboard_shortcuts_indexed_by_letter[char])
    ELSE /\ report' = Report("none")
         /\ prev' = [op |-> "key", ok |-> TRUE]
         /\ Count("key")
         /\ UNCHANGED <<pc, files, dirs, labels, keyboard_shortcuts_indexed_by_letter,
                        keyboard_shortcuts_indexed_by_idx, image_filenames, img_idx, undo,
                        log, clock, lastOk, before, nLabel, nUndo>>

-----------------------------------------------------------------------------
(* The program: the top-level script and the events of the main loop *)

Fresh ==
    /\ pc = "load_labels"
    /\ labels = <<>>
    /\ keyboard_shortcuts_indexed_by_letter = <<>>
    /\ keyboard_shortcuts_indexed_by_idx = <<>>
    /\ image_filenames = <<>>
    /\ img_idx = -1
    /\ undo = <<>>
    /\ log = <<>>
    /\ clock = 0
    /\ report = Report("none")
    /\ prev = [op |-> "none", ok |-> TRUE]
    /\ lastOk = "none"
    /\ before = [files |-> {}, log |-> <<>>, img_idx |-> -1]
    /\ nLabel = 0
    /\ nUndo = 0
    /\ nUndoCalls = 0
    /\ nCalls = 0

\* A root directory with some of the label directories and at most MaxQueue files.
Init ==
    /\ dirs \in SUBSET SessionDirs
    /\ \E S \in SUBSET SessionNames :
          /\ Cardinality(S) <= MaxQueue
          /\ files = {join(Root, n) : n \in S}
    /\ Fresh

\* line 88
CallLoadLabels ==
    /\ pc = "load_labels"
    /\ \E dirnames \in WalkDirnames :
          LET r == load_labels(dirnames)
          IN  /\ labels' = r.labels
              /\ keyboard_shortcuts_indexed_by_letter' = r.by_letter
              /\ keyboard_shortcuts_indexed_by_idx' = r.by_idx
    /\ pc' = "load_image_filenames"
    /\ UNCHANGED <<files, dirs, image_filenames, img_idx, undo, log, clock, report, prev,
                   lastOk, before, nLabel, nUndo, nUndoCalls, nCalls>>

\* line 90
CallLoadImageFilenames ==
    /\ pc = "load_image_filenames"
    /\ \E filenames \in WalkFilenames :
          image_filenames' \in load_image_filenames(filenames)
    /\ pc' = "change_img"
    /\ UNCHANGED <<files, dirs, labels, keyboard_shortcuts_indexed_by_letter,
                   keyboard_shortcuts_indexed_by_idx, img_idx, undo, log, clock, report,
                   prev, lastOk, before, nLabel, nUndo, nUndoCalls, nCalls>>

\* lines 213-215: the first image is shown and the event loop starts; a
\* window.quit() before window.mainloop() does not stop the loop.
ShowFirst ==
    /\ pc = "change_img"
    /\ LET c == change_img(FALSE, files)
       IN  /\ img_idx' = c.img_idx
           /\ report' = c.report
           /\ pc' = IF c.report.kind \in Exceptions THEN "exit" ELSE "mainloop"
    /\ UNCHANGED <<files, dirs, labels, keyboard_shortcuts_indexed_by_letter,
                   keyboard_shortcuts_indexed_by_idx, image_filenames, undo, log, clock,
                   prev, lastOk, before, nLabel, nUndo, nUndoCalls, nCalls>>

Dispatching == pc = "mainloop" /\ nCalls < MaxCalls

\* line 196: a click on the button of label btn_idx
Click(btn_idx) == Dispatching /\ on_btn_click(btn_idx)

\* line 212: a key press
KeyPress(char) == Dispatching /\ handle_keypress(char)

\* line 182: a click on the undo button
UndoClick == Dispatching /\ undo_click

\* line 168: time passes
Tick ==
    /\ pc = "mainloop"
    /\ clock < MaxClock
    /\ clock' = clock + 1
    /\ UNCHANGED <<pc, files, dirs, labels, keyboard_shortcuts_indexed_by_letter,
                   keyboard_shortcuts_indexed_by_idx, image_filenames, img_idx, undo, log,
                   report, prev, lastOk, before, nLabel, nUndo, nUndoCalls, nCalls>>

\* line 174: an empty label directory is removed while the session runs
RemoveDir(d) ==
    /\ pc = "mainloop"
    /\ d \in dirs
    /\ \A p \in files : p[1] # d
    /\ dirs' = dirs \ {d}
    /\ UNCHANGED <<pc, files, labels, keyboard_shortcuts_indexed_by_letter,
                   keyboard_shortcuts_indexed_by_idx, image_filenames, img_idx, undo, log,
                   clock, report, prev, lastOk, before, nLabel, nUndo, nUndoCalls, nCalls>>

Next ==
    \/ CallLoadLabels
    \/ CallLoadImageFilenames
    \/ ShowFirst
    \/ \E b \in 0..(Len(labels) - 1) : Click(b)
    \/ \E char \in Keys : KeyPress(char)
    \/ UndoClick
    \/ Tick
    \/ \E d \in SessionDirs : RemoveDir(d)

Spec == Init /\ [][Next]_vars

-----------------------------------------------------------------------------
(* The label loader on its own: every set of at most MaxLabels sub-directories *)

MaxLabelLen == 2     \* length of the generated label names

Letters == {"a", "c"}
Words(n) == UNION {[1..k -> Letters] : k \in 1..n}
LabelNames == Words(MaxLabelLen) \cup {cat, car, dog}

InitLabels ==
    /\ dirs \in {D \in SUBSET LabelNames : Cardinality(D) <= MaxLabels}
    /\ files = {}
    /\ Fresh

NextLabels == CallLoadLabels

SpecLabels == InitLabels /\ [][NextLabels]_vars

-----------------------------------------------------------------------------
(* The image queue on its own: every root directory with at most MaxFiles files *)

a_png     == <<"a", ".", "p", "n", "g">>
b_jpg     == <<"b", ".", "j", "p", "g">>
c_jpeg    == <<"c", ".", "j", "p", "e", "g">>
d_PNG     == <<"d", ".", "P", "N", "G">>                  \* upper-case extension
bare_png  == <<"p", "n", "g">>                            \* no dot
a_png_txt == <<"a", ".", "p", "n", "g", ".", "t", "x", "t">>
x_png     == <<"x", ".", "p", "n", "g">>                  \* a sub-directory named like an image

QueueNames == {a_png, b_jpg, c_jpeg, d_PNG, bare_png, a_png_txt, n_txt}
QueueDirs == {x_png, cat}

InitQueue ==
    /\ dirs \in SUBSET QueueDirs
    /\ \E S \in SUBSET QueueNames, N \in SUBSET QueueDirs :
          /\ Cardinality(S) <= MaxFiles
          /\ N \subseteq dirs
          /\ files = {join(Root, n) : n \in S} \cup {join(d, a_png) : d \in N}
    /\ Fresh

NextQueue ==
    \/ CallLoadLabels
    \/ CallLoadImageFilenames

SpecQueue == InitQueue /\ [][NextQueue]_vars

-----------------------------------------------------------------------------
(* Properties of the session *)

Started == pc \in {"mainloop", "exit"}
AtEnd == Started /\ img_idx >= Len(image_filenames)
Labelled == [op |-> "label", ok |-> TRUE]
Undone == [op |-> "undo", ok |-> TRUE]

\* C1: when a label action ran to its end and the next handler call is an
\* undo, the undo puts the files (the labelled file back in the root and out
\* of the label directory), the lines of the log and the cursor back to what
\* they were before the label action.
LabelThenUndoRestores ==
    [][(prev = Labelled /\ UndoClick) =>
          /\ files' = before.files
          /\ log' = before.log
          /\ img_idx' = before.img_idx]_vars

\* C1 witness: an undo straight after the second label action of a session,
\* back on a log of one line and on the cursor 1.
LabelThenUndoDone ==
    /\ prev = Undone
    /\ before.img_idx = 1
    /\ Len(before.log) = 1
    /\ files = before.files /\ log = before.log /\ img_idx = before.img_idx

\* C2: once an undo has undone a label action, every undo call before the
\* next label action that runs to its end shows a warning and changes neither
\* the files, the log, the cursor nor the undo record.
SingleLevelUndo ==
    [][(lastOk = "undo" /\ UndoClick) =>
          /\ report'.kind \in Warnings
          /\ UNCHANGED session]_vars

\* C2 witness: the second of two undo calls in a row was refused.
SecondUndoRefused ==
    /\ lastOk = "undo"
    /\ prev = [op |-> "undo", ok |-> FALSE]
    /\ report.kind = "OnlyUndoOnce"
    /\ nUndoCalls = 2 /\ nUndo = 1

\* C3 (as claimed): the log has as many lines as label actions ran to their
\* end and were not undone.
LogRowsAreNetLabels == Started => Len(log) = nLabel - nUndo

\* C4 (as claimed): without undo calls, after N label actions that ran to
\* their end the log has N lines and the cursor is N.
NoUndoRowsAndCursor ==
    (Started /\ nUndoCalls = 0) => (Len(log) = nLabel /\ img_idx = nLabel)

\* C5 (as claimed): the completion dialog of the label action that reaches the
\* end of the queue shows the number of label actions made so far.
CompletionCountsActions == pc = "exit" => report = Finished(nLabel)

\* C5 (amended): the completion dialog of the label action that reaches the
\* end of the queue shows the length of the queue, which is the number of
\* label actions made less the number undone, and once the cursor is at the
\* end no step changes the files, the log, the cursor or the undo record.
CompletionIsFinal ==
    /\ [](pc = "exit" =>
            /\ report = Finished(Len(image_filenames))
            /\ img_idx = Len(image_filenames)
            /\ nLabel - nUndo = Len(image_filenames))
    /\ [][AtEnd => UNCHANGED session]_vars

\* C5 witness: the end of a queue of two files was reached by the third label
\* action, one having been undone.
CompletedAfterUndo ==
    /\ pc = "exit"
    /\ report = Finished(2)
    /\ nLabel = 3 /\ nUndo = 1

-----------------------------------------------------------------------------
(* Properties of the label loader *)

LabelsLoaded == pc = "load_image_filenames"
Indices == 0..(Len(labels) - 1)
HasShortcut(i) == i \in DOMAIN keyboard_shortcuts_indexed_by_idx
ShortcutOf(i) == At(At(labels, i), keyboard_shortcuts_indexed_by_idx[i])
\* the label that the key c selects
LabelOfKey(c) == At(labels, keyboard_shortcuts_indexed_by_letter[c])

\* C6: the shortcut characters of different labels differ, no label is
\* selected by two characters, and the characters that select a label are the
\* shortcuts shown on the labels.
ShortcutsDistinct ==
    LabelsLoaded =>
        /\ \A i, j \in Indices :
              (HasShortcut(i) /\ HasShortcut(j) /\ i # j) => ShortcutOf(i) # ShortcutOf(j)
        /\ \A i \in Indices :
              Cardinality({c \in DOMAIN keyboard_shortcuts_indexed_by_letter :
                              keyboard_shortcuts_indexed_by_letter[c] = i}) <= 1
        /\ \A c \in DOMAIN keyboard_shortcuts_indexed_by_letter :
              LET i == keyboard_shortcuts_indexed_by_letter[c]
              IN  i \in Indices /\ HasShortcut(i) /\ ShortcutOf(i) = c

\* C6 witness: three labels that start with the same letter, two of them with
\* a shortcut.
SharedFirstLetter ==
    /\ LabelsLoaded
    /\ Len(labels) = 3
    /\ \A i \in Indices : At(At(labels, i), 0) = "c"
    /\ Cardinality(DOMAIN keyboard_shortcuts_indexed_by_idx) = 2

\* C7 (as claimed): for cat, car and dog, c selects cat, a selects car and d
\* selects dog.
ExampleAsClaimed ==
    (LabelsLoaded /\ dirs = {cat, car, dog}) =>
        /\ DOMAIN keyboard_shortcuts_indexed_by_letter = {"c", "a", "d"}
        /\ LabelOfKey("c") = cat
        /\ LabelOfKey("a") = car
        /\ LabelOfKey("d") = dog

\* C7 (amended): for cat, car and dog, c selects car, which sorts first, a
\* selects cat, because c is taken, and d selects dog.
ExampleSorted ==
    (LabelsLoaded /\ dirs = {cat, car, dog}) =>
        /\ DOMAIN keyboard_shortcuts_indexed_by_letter = {"c", "a", "d"}
        /\ LabelOfKey("c") = car
        /\ LabelOfKey("a") = cat
        /\ LabelOfKey("d") = dog

\* C7 witness: the labels of the example are loaded.
ExampleLoaded ==
    /\ LabelsLoaded
    /\ dirs = {cat, car, dog}
    /\ Len(labels) = 3

\* the characters claimed by the labels before label i
ClaimedBefore(i) == {ShortcutOf(j) : j \in {k \in 0..(i - 1) : HasShortcut(k)}}
\* the positions in label i of the characters not claimed before it
FreeIn(i) == {k \in 0..(Len(At(labels, i)) - 1) : At(At(labels, i), k) \notin ClaimedBefore(i)}

\* C8: the labels are the sub-directories in increasing order; the shortcut of
\* a label is its leftmost character that no earlier label claimed and that
\* character selects the label; a label without such a character has no
\* shortcut; and the loader returns a list of labels for every set of
\* sub-directories, in whatever order they are listed.
ShortcutIsLeftmostFree ==
    /\ pc = "load_labels" =>
          \A dirnames \in WalkDirnames : Len(load_labels(dirnames).labels) = Cardinality(dirs)
    /\ LabelsLoaded =>
        /\ {At(labels, i) : i \in Indices} = dirs
        /\ \A i, j \in Indices : i < j => StrLess(At(labels, i), At(labels, j))
        /\ \A i \in Indices :
              IF FreeIn(i) = {}
              THEN ~HasShortcut(i)
              ELSE /\ HasShortcut(i)
                   /\ keyboard_shortcuts_indexed_by_idx[i] = Min(FreeIn(i))
                   /\ keyboard_shortcuts_indexed_by_letter[ShortcutOf(i)] = i

\* C8 witness: a label whose characters were all claimed has no shortcut, and
\* another label has a shortcut that is not its first character.
LabelWithoutShortcut ==
    /\ LabelsLoaded
    /\ \E i \in Indices : ~HasShortcut(i)
    /\ \E i \in Indices : HasShortcut(i) /\ keyboard_shortcuts_indexed_by_idx[i] > 0

-----------------------------------------------------------------------------
(* Properties of the image queue *)

QueueLoaded == pc = "change_img"
Extensions == {png, jpg, jpeg}
HasExtension(n, e) ==
    /\ Len(n) >= Len(e)
    /\ \A k \in 1..Len(e) : n[Len(n) - Len(e) + k] = e[k]
RootFiles == {p[2] : p \in {q \in files : q[1] = Root}}
Accepted == {n \in RootFiles : \E e \in Extensions : HasExtension(n, e)}

\* C9: the queue lists each file of the root directory whose name ends in
\* .png, .jpg or .jpeg once, and nothing else: no other file, no file of a
\* sub-directory and no sub-directory.
QueueIsPermutation ==
    QueueLoaded =>
        /\ {image_filenames[i] : i \in 1..Len(image_filenames)} = Accepted
        /\ Len(image_filenames) = Cardinality(Accepted)
        /\ \A i \in 1..Len(image_filenames) : image_filenames[i] \notin dirs

\* C9 witness: a queue of two images, from a root directory with a file
\* without the dot, a file in a sub-directory and a sub-directory named
\* x.png.
QueueFiltered ==
    /\ QueueLoaded
    /\ Len(image_filenames) = 2
    /\ join(Root, bare_png) \in files
    /\ join(x_png, a_png) \in files

-----------------------------------------------------------------------------
(* Properties of the session, continued *)

\* C10: an undo call without an undo record, or with a record whose
\* destination file is no longer there, shows a warning and changes neither
\* the files, the log, the cursor nor the undo record.
RefusedUndoChangesNothing ==
    [][(UndoClick /\ (Len(undo) # 2 \/ join(undo[1][1], undo[1][2]) \notin files)) =>
          /\ report'.kind \in Warnings
          /\ UNCHANGED session]_vars

\* C10 witness: an undo call without an undo record, on a log that has a line.
NothingToUndoShown ==
    /\ prev = [op |-> "undo", ok |-> FALSE]
    /\ report.kind = "NothingToUndo"
    /\ undo = <<>>
    /\ log # <<>>

\* the labels whose button shows the character char as shortcut
Owners(char) == {i \in Indices : HasShortcut(i) /\ ShortcutOf(i) = char}

\* C11: a key press of a character that a button shows as its shortcut is the
\* step that a click on that button is; a key press of any other character
\* changes neither the files, the log, the cursor nor the undo record.
KeyPressIsClick ==
    [][\A char \in Keys :
          KeyPress(char) =>
              IF Owners(char) # {}
              THEN \A i \in Owners(char) : Click(i)
              ELSE UNCHANGED session]_vars

\* C11 witness: with two labels, both with a shortcut among the keys, a file
\* was moved to the second label, which the key a selects, and then a key
\* without a label was pressed.
KeyIgnoredAfterLabel ==
    /\ prev = [op |-> "key", ok |-> TRUE]
    /\ Owners("c") = {0} /\ Owners("a") = {1} /\ Owners("x") = {}
    /\ lastOk = "label"
    /\ undo[1][1] = LabelOfKey("a")

\* C12: the cursor is never below -1 nor above the length of the queue, and
\* from the first image on it is never below 0.
CursorInRange ==
    /\ img_idx >= -1
    /\ img_idx <= Len(image_filenames)
    /\ Started => img_idx >= 0

\* C12 witness: an undo took the cursor back to 0 and the next undo call was
\* refused.
UndoRefusedAtStart ==
    /\ img_idx = 0
    /\ nUndo = 1
    /\ prev = [op |-> "undo", ok |-> FALSE]

\* the log without its line number k (counted from 1)
WithoutLine(lines, k) == SubSeq(lines, 1, k - 1) \o SubSeq(lines, k + 1, Len(lines))

\* C13 (as claimed): an undo that undoes puts the files and the cursor back to
\* what they were before the last label action that ran to its end, and the
\* line it removes from the log is the line that action appended.
UndoRevertsLastLabel ==
    [][(UndoClick /\ prev' = Undone) =>
          /\ files' = before.files
          /\ img_idx' = before.img_idx
          /\ log' = WithoutLine(log, Len(before.log) + 1)]_vars

\* the current file name has no underscore
NoUnderscore(n) == \A k \in 1..Len(n) : n[k] # "_"
\* the iteration token of the current file name is empty: nothing, a dot or
\* another underscore follows the first underscore
EmptyIteration(n) ==
    \E k \in 1..Len(n) :
        /\ n[k] = "_"
        /\ \A j \in 1..(k - 1) : n[j] # "_"
        /\ (k = Len(n) \/ n[k + 1] \in {".", "_"})
Current == Index(image_filenames, img_idx)

\* C14: a label action on a file name without underscore raises IndexError,
\* one on a file name with an empty iteration token raises ValueError, and
\* neither changes the files, the log, the cursor or the undo record.
MalformedNameChangesNothing ==
    [][\A b \in Indices :
          (/\ Click(b)
           /\ IndexOk(image_filenames, img_idx)
           /\ (NoUnderscore(Current) \/ EmptyIteration(Current))) =>
              /\ report'.kind = IF NoUnderscore(Current) THEN "IndexError" ELSE "ValueError"
              /\ UNCHANGED session]_vars

\* C14 witness: after one file was labelled, the label action on the next
\* file, which has an empty iteration token, raised.
EmptyIterationRaised ==
    /\ prev = [op |-> "label", ok |-> FALSE]
    /\ report.kind = "ValueError"
    /\ img_idx = 1 /\ nLabel = 1
    /\ EmptyIteration(Current)

\* C15: a label action whose label directory is missing raises, leaves the
\* files where they are, does not move the cursor and keeps the undo record.
MissingDirectoryKeepsFile ==
    [][\A b \in Indices :
          (Click(b) /\ At(labels, b) \notin dirs) =>
              /\ report'.kind \in Exceptions
              /\ files' = files
              /\ img_idx' = img_idx
              /\ undo' = undo]_vars

\* C15 witness: after one file was labelled, the label action on the next
\* file found its label directory missing; the undo record is still that of
\* the first file.
MoveFailed ==
    /\ prev = [op |-> "label", ok |-> FALSE]
    /\ report.kind = "FileNotFoundError"
    /\ img_idx = 1
    /\ Len(undo) = 2 /\ undo[2] = join(Root, Index(image_filenames, 0))
    /\ join(Root, Current) \in files

\* the directories in which a file named n lies
Places(n) == {p[1] : p \in {q \in files : q[2] = n}}
Positions == 0..(Len(image_filenames) - 1)
LabelSet == {At(labels, i) : i \in Indices}

\* C17: from the first image on, every file of the queue before the cursor
\* lies in one label directory and nowhere else, and every file of the queue
\* at or after the cursor lies in the root directory and nowhere else.  It is
\* assumed that at startup no label directory holds a file with the name of a
\* file of the queue.
QueuePartition ==
    Started =>
        \A k \in Positions :
            LET n == Index(image_filenames, k)
            IN  /\ Cardinality(Places(n)) = 1
                /\ IF k < img_idx
                   THEN Places(n) \subseteq (LabelSet \cap dirs)
                   ELSE Places(n) = {Root}

\* C17 witness: two of three files are labelled, in different directories,
\* after an undo.
TwoLabelledOneLeft ==
    /\ Started
    /\ Len(image_filenames) = 3 /\ img_idx = 2
    /\ Places(Index(image_filenames, 0)) # Places(Index(image_filenames, 1))
    /\ nUndo = 1

\* C18 (as claimed): the log has one line for each position before the
\* cursor, in the order of the queue, and the line of a position holds the
\* serial of the file at that position and the label of the directory in
\* which the file lies.
LogAgreesWithFiles ==
    Started =>
        /\ Len(log) = img_idx
        /\ \A k \in 0..(img_idx - 1) :
              LET n == Index(image_filenames, k)
                  row == At(log, k)
              IN  /\ row[2] = split(n, <<"_">>)[1]
                  /\ Places(n) = {row[5]}

-----------------------------------------------------------------------------
(* The session of a user who goes on labelling: a label action that can run *)
(* to its end is eventually made, beyond the MaxCalls calls of any kind.    *)

\* the label action of button b can run to its end: there is a current file,
\* its name can be parsed, it lies in the root and the label directory exists
CanLabel(b) ==
    /\ IndexOk(image_filenames, img_idx)
    /\ ~NoUnderscore(Current)
    /\ ~EmptyIteration(Current)
    /\ join(Root, Current) \in files
    /\ At(labels, b) \in dirs

\* lines 164-176 when nothing raises: the row written, the file moved, the
\* undo record set and change_img() called, for the parsed serial, iteration
\* token and name root
Moved(b, serial, itr, fname) ==
    LET label == At(labels, b)
        src == join(Root, Current)
        new_img_filename == join(label, Current)
        fs == rename(files, src, new_img_filename)
        c == change_img(FALSE, fs)
    IN  /\ log' = append_row(log, <<clock, serial, itr, fname, label>>)
        /\ files' = fs
        /\ undo' = <<new_img_filename, src>>
        /\ img_idx' = c.img_idx
        /\ report' = c.report
        /\ pc' = IF c.quit THEN "exit" ELSE pc
        /\ prev' = Labelled
        /\ lastOk' = "label"
        /\ before' = [files |-> files, log |-> log, img_idx |-> img_idx]
        /\ nLabel' = nLabel + 1
        /\ Count("label")
        /\ UNCHANGED <<dirs, labels, keyboard_shortcuts_indexed_by_letter,
                       keyboard_shortcuts_indexed_by_idx, image_filenames, clock, nUndo>>

\* lines 164-167 on the names of the session that parse: the serial, the
\* iteration token and the name root of each
Parsed ==
    [n \in {m \in SessionNames : ~NoUnderscore(m) /\ ~EmptyIteration(m)} |->
        LET parts == split(n, <<"_">>)
            itr == split(parts[2], <<".">>)[1]
        IN  [serial |-> parts[1], itr |-> itr,
             fname |-> splitext_root(split(n, itr)[2])]]

\* a label action that runs to its end; it is a step of on_btn_click
\* (LabelDoneIsClick) and is not limited by MaxCalls
LabelDone ==
    /\ pc = "mainloop"
    /\ \E b \in 0..(Len(labels) - 1) :
          /\ CanLabel(b)
          /\ Moved(b, Parsed[Current].serial, Parsed[Current].itr, Parsed[Current].fname)

\* the steps of a session whose label actions go on; the clock, which only
\* stamps the log rows (line 168), stays at its first value
LiveNext ==
    \/ CallLoadLabels
    \/ CallLoadImageFilenames
    \/ ShowFirst
    \/ LabelDone
    \/ \E b \in 0..(Len(labels) - 1) : Click(b)
    \/ \E char \in Keys : KeyPress(char)
    \/ UndoClick
    \/ \E d \in SessionDirs : RemoveDir(d)

\* the start-up statements run (lines 211-215) and the user goes on labelling
\* while a label action can run to its end
SpecLive ==
    /\ Init
    /\ [][LiveNext]_vars
    /\ WF_vars(CallLoadLabels)
    /\ WF_vars(CallLoadImageFilenames)
    /\ WF_vars(ShowFirst)
    /\ WF_vars(LabelDone)

\* LabelDone is the step on_btn_click takes when nothing raises, and every
\* click that ends in a move is such a step
LabelDoneIsClick ==
    [][/\ LabelDone => \E b \in Indices : on_btn_click(b) /\ CanLabel(b)
       /\ ((\E b \in Indices : Click(b)) /\ prev' = Labelled) => LabelDone]_vars

Completed == AtEnd /\ report = Finished(Len(image_filenames))
\* no label action can run to its end on the current file
Blocked ==
    /\ pc = "mainloop"
    /\ ~AtEnd
    /\ IndexOk(image_filenames, img_idx)
    /\ \/ LabelSet \cap dirs = {}
       \/ NoUnderscore(Current)
       \/ EmptyIteration(Current)

\* C16: with finitely many undo calls, a session in which label actions go on
\* running to their end reaches the end of the queue and reports completion
\* with the length of the queue, unless from some point on no label action
\* can run to its end; with an empty queue the first change_img reports
\* completion with count 0.
SessionCompletes ==
    /\ <>Completed \/ <>[]Blocked
    /\ [](Len(image_filenames) = 0 /\ Started /\ nCalls = 0 => report = Finished(0))

\* C16 witness: a queue of two files was completed after two undo calls,
\* by more label actions than MaxCalls.
CompletedBeyondMaxCalls ==
    /\ pc = "exit"
    /\ Completed
    /\ Len(image_filenames) = 2
    /\ nUndo = 2
    /\ nCalls > MaxCalls

====
